---------------------------- MODULE Spec2Model ----------------------------
(***************************************************************************)
(* A model of the Datastore client of google-cloud-rs                      *)
(* (src/google-cloud/src/datastore/client.rs): the marshalling functions   *)
(* convert_key / convert_value / convert_entity / convert_filter and the   *)
(* client methods get, get_all, put, put_all, delete, delete_all, query,   *)
(* each run against a remote service that answers nondeterministically.    *)
(*                                                                         *)
(* Rust's Option<T> is a sequence of length at most one: None is <<>> and  *)
(* Some(x) is <<x>>.  A HashMap is a function on the set of its keys.  An  *)
(* enum value is a record whose "tag" names the variant.                   *)
(***************************************************************************)
EXTENDS Integers, Sequences, FiniteSets, TLC

None == <<>>
Some(x) == <<x>>
IsSome(o) == o /= <<>>
Unwrap(o) == o[1]

EmptyMap == [x \in {} |-> x]

\* Vec::reverse
RECURSIVE Reverse(_)
Reverse(s) == IF s = <<>> THEN <<>> ELSE Reverse(Tail(s)) \o <<Head(s)>>

\* concatenation of a sequence of sequences
RECURSIVE Flatten(_)
Flatten(ss) == IF ss = <<>> THEN <<>> ELSE Head(ss) \o Flatten(Tail(ss))

(***************************************************************************)
(* Bounds of the model.                                                    *)
(***************************************************************************)
\* RPCs one client call may issue before the service stops asking for more
MaxRpcs == 3

(***************************************************************************)
(* The local data model (datastore::{Key, KeyID, Value, Entity, Filter,    *)
(* Query}) as client.rs reads it.                                          *)
(***************************************************************************)
Incomplete == [tag |-> "Incomplete"]
IntID(i) == [tag |-> "IntID", id |-> i]
StringID(s) == [tag |-> "StringID", name |-> s]

\* Key::new(kind).id(id).parent(parent).namespace(ns)
Key(kind, id, parent, ns) ==
    [kind |-> kind, id |-> id, parent |-> parent, namespace |-> ns]

BooleanValue(b) == [tag |-> "BooleanValue", bool |-> b]
DoubleValue(d) == [tag |-> "DoubleValue", double |-> d]
BlobValue(bytes) == [tag |-> "BlobValue", blob |-> bytes]
GeoPointValue(lat, lon) == [tag |-> "GeoPointValue", latitude |-> lat, longitude |-> lon]
IntegerValue(i) == [tag |-> "IntegerValue", int |-> i]
StringValue(s) == [tag |-> "StringValue", str |-> s]
TimestampValue(ns) == [tag |-> "TimestampValue", nanos_since_epoch |-> ns]
KeyValue(k) == [tag |-> "KeyValue", key |-> k]
IndexedValue(v, flag) == [tag |-> "IndexedValue", inner |-> v, flag |-> flag]
EntityValue(props) == [tag |-> "EntityValue", props |-> props]
ArrayValue(vs) == [tag |-> "ArrayValue", values |-> vs]

Entity(key, properties) == [key |-> key, properties |-> properties]

Project == "proj"

(***************************************************************************)
(* convert_key                                                             *)
(***************************************************************************)
\* client.rs 340-346: the id_type of one path element
convert_id(id) ==
    CASE id.tag = "Incomplete" -> None
      [] id.tag = "IntID" -> Some([tag |-> "Id", id |-> id.id])
      [] id.tag = "StringID" -> Some([tag |-> "Name", name |-> id.name])

\* client.rs 335-349: the while-let walk along get_parent(), leaf first
RECURSIVE walk_parents(_)
walk_parents(key) ==
    <<[kind |-> key.kind, id_type |-> convert_id(key.id)]>>
        \o (IF IsSome(key.parent) THEN walk_parents(Unwrap(key.parent)) ELSE <<>>)

\* mutant: the partition takes the namespace of the root of the chain
RECURSIVE root_of(_)
root_of(key) == IF IsSome(key.parent) THEN root_of(Unwrap(key.parent)) ELSE key
convert_key_root_namespace(project_name, key) ==
    [partition_id |-> Some([project_id |-> project_name,
                            namespace_id |-> IF IsSome(root_of(key).namespace)
                                             THEN Unwrap(root_of(key).namespace) ELSE ""]),
     path |-> Reverse(walk_parents(key))]

\* mutant: the path is left in the order of the walk, leaf first
convert_key_leaf_first(project_name, key) ==
    [partition_id |-> Some([project_id |-> project_name,
                            namespace_id |-> IF IsSome(key.namespace)
                                             THEN Unwrap(key.namespace) ELSE ""]),
     path |-> walk_parents(key)]

convert_key(project_name, key) ==
    [partition_id |-> Some([project_id |-> project_name,
                            namespace_id |-> IF IsSome(key.namespace)
                                             THEN Unwrap(key.namespace) ELSE ""]),
     path |-> Reverse(walk_parents(key))]

\* Key::is_incomplete (key.rs): the key's own, terminal, identifier is unset
is_incomplete(key) == key.id = Incomplete

(***************************************************************************)
(* convert_value, convert_entity, convert_filter                           *)
(***************************************************************************)
NanosPerSecond == 1000000000

WireValue(exclude, value_type) ==
    [meaning |-> 0, exclude_from_indexes |-> exclude, value_type |-> Some(value_type)]

\* mutant: the index flag is copied as it is, not negated
exclude_from_indexes_not_negated(value) ==
    IF value.tag = "IndexedValue" THEN value.flag ELSE FALSE

\* mutant: every wrapped value is excluded from the indexes
exclude_from_indexes_any_wrapper(value) == value.tag = "IndexedValue"

\* mutant: the flag of the innermost wrapper is the one that counts
RECURSIVE innermost_flag(_)
innermost_flag(value) ==
    IF value.inner.tag = "IndexedValue" THEN innermost_flag(value.inner) ELSE value.flag
exclude_from_indexes_innermost(value) ==
    IF value.tag = "IndexedValue" THEN ~innermost_flag(value) ELSE FALSE

\* client.rs 373 and 385: false, or !flag for an IndexedValue
exclude_from_indexes_of(value) ==
    IF value.tag = "IndexedValue" THEN ~value.flag ELSE FALSE

RECURSIVE convert_value(_, _)
convert_value(project_name, value) ==
    LET exclude_from_indexes == exclude_from_indexes_of(value)
        value_type ==
            CASE value.tag = "BooleanValue" ->
                    [tag |-> "BooleanValue", bool |-> value.bool]
              [] value.tag = "IntegerValue" ->
                    [tag |-> "IntegerValue", int |-> value.int]
              [] value.tag = "DoubleValue" ->
                    [tag |-> "DoubleValue", double |-> value.double]
              [] value.tag = "BlobValue" ->
                    [tag |-> "BlobValue", blob |-> value.blob]
              [] value.tag = "GeoPointValue" ->
                    [tag |-> "GeoPointValue",
                     lat_lng |-> [latitude |-> value.latitude,
                                  longitude |-> value.longitude]]
              [] value.tag = "TimestampValue" ->
                    [tag |-> "TimestampValue",
                     seconds |-> value.nanos_since_epoch \div NanosPerSecond,
                     nanos |-> value.nanos_since_epoch % NanosPerSecond]
              [] value.tag = "KeyValue" ->
                    [tag |-> "KeyValue", key |-> convert_key(project_name, value.key)]
              [] value.tag = "StringValue" ->
                    [tag |-> "StringValue", str |-> value.str]
              [] value.tag = "IndexedValue" ->
                    Unwrap(convert_value(project_name, value.inner).value_type)
              [] value.tag = "EntityValue" ->
                    [tag |-> "EntityValue",
                     entity |-> [key |-> None,
                                 properties |->
                                    [k \in DOMAIN value.props |->
                                        convert_value(project_name, value.props[k])]]]
              [] value.tag = "ArrayValue" ->
                    [tag |-> "ArrayValue",
                     values |-> [i \in 1..Len(value.values) |->
                                    convert_value(project_name, value.values[i])]]
    IN  WireValue(exclude_from_indexes, value_type)

\* client.rs 358-361: the properties of an Entity must be an EntityValue
entity_panics(entity) == entity.properties.tag /= "EntityValue"

convert_entity(project_name, entity) ==
    [key |-> Some(convert_key(project_name, entity.key)),
     properties |-> [k \in DOMAIN entity.properties.props |->
                        convert_value(project_name, entity.properties.props[k])]]

\* Filter::Equal(name, value), ... : [op, name, value]
Filter(op, name, value) == [op |-> op, name |-> name, value |-> value]

\* client.rs 424-437: local filter variant -> property_filter::Operator
filter_operator(op) ==
    CASE op = "Equal" -> "Equal"
      [] op = "GreaterThan" -> "GreaterThan"
      [] op = "LesserThan" -> "LessThan"
      [] op = "GreaterThanOrEqual" -> "GreaterThanOrEqual"
      [] op = "LesserThanEqual" -> "LessThanOrEqual"
      [] op = "NotEqual" -> "NotEqual"
      [] op = "In" -> "In"
      [] op = "NotIn" -> "NotIn"

\* mutant: a single filter is sent bare, without the composite around it
convert_filter_single_bare(project_name, filters) ==
    IF filters = <<>> THEN None
    ELSE IF Len(filters) = 1
    THEN Some([tag |-> "PropertyFilter",
               op |-> filter_operator(filters[1].op),
               property |-> Some([name |-> filters[1].name]),
               value |-> Some(convert_value(project_name, filters[1].value))])
    ELSE Some([tag |-> "CompositeFilter",
               op |-> "And",
               filters |->
                 [i \in 1..Len(filters) |->
                    [tag |-> "PropertyFilter",
                     op |-> filter_operator(filters[i].op),
                     property |-> Some([name |-> filters[i].name]),
                     value |-> Some(convert_value(project_name, filters[i].value))]]])

convert_filter(project_name, filters) ==
    IF filters /= <<>>
    THEN Some([tag |-> "CompositeFilter",
               op |-> "And",
               filters |->
                 [i \in 1..Len(filters) |->
                    [tag |-> "PropertyFilter",
                     op |-> filter_operator(filters[i].op),
                     property |-> Some([name |-> filters[i].name]),
                     value |-> Some(convert_value(project_name, filters[i].value))]]])
    ELSE None

(***************************************************************************)
(* Wire -> local conversions (Key::from, Value::from, Entity::from live in *)
(* key.rs, value.rs and entity.rs).                                        *)
(***************************************************************************)
id_from(id_type) ==
    IF id_type = None THEN Incomplete
    ELSE IF Unwrap(id_type).tag = "Id" THEN IntID(Unwrap(id_type).id)
    ELSE StringID(Unwrap(id_type).name)

\* the path is folded root first; every node gets the partition's namespace
RECURSIVE key_from_path(_, _, _)
key_from_path(path, ns, parent) ==
    IF path = <<>> THEN parent
    ELSE key_from_path(Tail(path), ns,
                       Some(Key(Head(path).kind, id_from(Head(path).id_type), parent, ns)))

Key_from(wire_key) ==
    LET part == Unwrap(wire_key.partition_id)
        ns == IF part.namespace_id = "" THEN None ELSE Some(part.namespace_id)
    IN  Unwrap(key_from_path(wire_key.path, ns, None))

RECURSIVE Value_from(_)
Value_from(wire_value) ==
    LET vt == Unwrap(wire_value.value_type)
    IN  CASE vt.tag = "BooleanValue" -> BooleanValue(vt.bool)
          [] vt.tag = "IntegerValue" -> IntegerValue(vt.int)
          [] vt.tag = "DoubleValue" -> DoubleValue(vt.double)
          [] vt.tag = "BlobValue" -> BlobValue(vt.blob)
          [] vt.tag = "GeoPointValue" ->
                GeoPointValue(vt.lat_lng.latitude, vt.lat_lng.longitude)
          [] vt.tag = "TimestampValue" ->
                TimestampValue(vt.seconds * NanosPerSecond + vt.nanos)
          [] vt.tag = "KeyValue" -> KeyValue(Key_from(vt.key))
          [] vt.tag = "StringValue" -> StringValue(vt.str)
          [] vt.tag = "EntityValue" ->
                EntityValue([k \in DOMAIN vt.entity.properties |->
                                Value_from(vt.entity.properties[k])])
          [] vt.tag = "ArrayValue" ->
                ArrayValue([i \in 1..Len(vt.values) |-> Value_from(vt.values[i])])

Entity_from(wire_entity) ==
    Entity(Key_from(Unwrap(wire_entity.key)),
           EntityValue([k \in DOMAIN wire_entity.properties |->
                           Value_from(wire_entity.properties[k])]))

(***************************************************************************)
(* The inputs the callers pass and the data the service answers with.      *)
(***************************************************************************)
KRoot == Key("Root", StringID("r1"), None, None)
K1 == KRoot
K2 == Key("A", IntID(1), Some(KRoot), None)
K3 == Key("B", IntID(2), None, None)
\* the spec's scenario: leaf {A, incomplete} under parent {Root, name r1}
KInc == Key("A", Incomplete, Some(KRoot), None)
\* a root key without identifier, in a namespace
KIncNs == Key("B", Incomplete, None, Some("ns"))

\* three nodes: C/"c" under A/1 under Root/"r1"
K4 == Key("C", StringID("c"), Some(K2), None)
\* a namespace on the leaf only: B/2 in "ns" under Root/"r1"
KNs == Key("B", IntID(2), Some(KRoot), Some("ns"))
\* an ancestor without identifier: A/1 under Root/incomplete
KBadParent == Key("A", IntID(1), Some(Key("Root", Incomplete, None, None)), None)

\* a namespace on the ancestor only: A/1 under Root/"r1" in "other"
KAncNs == Key("A", IntID(1), Some(Key("Root", StringID("r1"), None, Some("other"))), None)

KeyLists ==
    { <<>>, <<K1>>, <<K2>>, <<K1, K2>>, <<K2, K1>>, <<K1, K1>>,
      <<K1, K2, K3>>, <<KInc>>, <<K3, KInc>>, <<K1, KIncNs, K2>> }

Props(n) == EntityValue([p |-> IntegerValue(n)])

\* properties with index wrappers: alone, nested, inside an array and inside
\* a nested entity, next to the same values without wrapper
PropsWrapped ==
    EntityValue([plain |-> StringValue("s"),
                 indexed |-> IndexedValue(StringValue("s"), TRUE),
                 unindexed |-> IndexedValue(StringValue("s"), FALSE),
                 inner_on |-> IndexedValue(IndexedValue(IntegerValue(1), TRUE), FALSE),
                 inner_off |-> IndexedValue(IndexedValue(IntegerValue(1), FALSE), TRUE),
                 array |-> ArrayValue(<<IndexedValue(IntegerValue(1), FALSE),
                                        IntegerValue(2)>>),
                 entity |-> EntityValue([x |-> IndexedValue(BooleanValue(TRUE), FALSE),
                                         y |-> BooleanValue(TRUE)])])

\* what put_all is handed: values whose into_entity() succeeds or fails
IntoOk(entity) == [tag |-> "Ok", entity |-> entity]
IntoErr == [tag |-> "Err"]

EntityLists ==
    { <<>>,
      <<IntoOk(Entity(K1, Props(1)))>>,
      <<IntoOk(Entity(KInc, Props(1)))>>,
      <<IntoOk(Entity(KInc, Props(1))), IntoOk(Entity(K2, Props(2)))>>,
      <<IntoOk(Entity(K3, Props(1))), IntoOk(Entity(KIncNs, Props(2))),
        IntoOk(Entity(K1, EntityValue([p |-> IndexedValue(StringValue("s"), FALSE)])))>>,
      <<IntoOk(Entity(K2, PropsWrapped))>>,
      <<IntoOk(Entity(K1, Props(1))), IntoErr>>,
      <<IntoOk(Entity(K1, IntegerValue(7))), IntoErr>>,
      <<IntoOk(Entity(K1, IntegerValue(7)))>> }

Asc(name) == [tag |-> "Asc", name |-> name]
Desc(name) == [tag |-> "Desc", name |-> name]

\* datastore::Query as Client::query reads it
Query(kind, projections, filters, ordering, distinct_on, offset, limit, namespace, eventual) ==
    [kind |-> kind, projections |-> projections, filters |-> filters,
     ordering |-> ordering, distinct_on |-> distinct_on, offset |-> offset,
     limit |-> limit, namespace |-> namespace, eventual |-> eventual]

QPlain == Query("A", <<>>, <<>>, <<>>, <<>>, 0, None, None, FALSE)
QFull ==
    Query("B", <<"p">>, <<Filter("GreaterThan", "p", IntegerValue(0)),
                         Filter("Equal", "k", KeyValue(K2))>>,
          <<Desc("p"), Asc("q")>>, <<"p">>, 2, Some(5), Some("ns"), TRUE)

\* a query with exactly one filter
QOne ==
    Query("A", <<>>, <<Filter("LesserThan", "p", IntegerValue(3))>>,
          <<>>, <<>>, 0, None, None, FALSE)

Queries == {QPlain, QFull, QOne}

\* the entity the service holds for a key, in wire form
\* (its properties tell the key and the version of the data it was read from)
ServerEntity(wire_key, n) ==
    [key |-> Some(wire_key),
     properties |-> [p |-> WireValue(FALSE, [tag |-> "IntegerValue", int |-> n]),
                     self |-> WireValue(FALSE, [tag |-> "KeyValue", key |-> wire_key])]]

\* EntityResult: only the entity is read by the client
EntityResult(entity) == [entity |-> entity]

MoreResultsTypes ==
    {"Unspecified", "NotFinished", "MoreResultsAfterLimit",
     "MoreResultsAfterCursor", "NoMoreResults"}

Cursors == {<<1>>, <<2>>}

BatchEntities ==
    { <<>>,
      <<EntityResult(Some(ServerEntity(convert_key(Project, K3), 1)))>>,
      <<EntityResult(Some(ServerEntity(convert_key(Project, K2), 2))),
        EntityResult(Some(ServerEntity(convert_key(Project, K1), 3)))>>,
      <<EntityResult(None)>> }

(***************************************************************************)
(* The state.  Every variable but token_manager and unbounded is a         *)
(* function on the set of tasks, each task running one client call.        *)
(***************************************************************************)
VARIABLES
    pc,             \* where each task stands: idle, cr_lock, cr_token, rpc, done, panicked
    call,           \* the client method the task called and its argument
    frame,          \* the locals of the running method
    ret,            \* None while running, then Some(Ok(..)) or Some(Err(..))
    sent,           \* history: the requests the task has handed to the service
    recv,           \* history: the answers the task has received
    inflight,       \* the requests awaiting an answer
    token_manager,  \* the tokio Mutex around the TokenManager: None or Some(holder)
    unbounded       \* whether the service may go on asking for more beyond MaxRpcs

vars == <<pc, call, frame, ret, sent, recv, inflight, token_manager, unbounded>>

Tasks == DOMAIN pc

Ok(v) == [tag |-> "Ok", value |-> v]
Err(e) == [tag |-> "Err", error |-> e]

NoCall == [method |-> "none"]
NoFrame ==
    [og_keys |-> <<>>, keys |-> <<>>, found |-> EmptyMap,
     cur_query |-> None, cursor |-> <<>>, output |-> <<>>, request |-> None]

InitTasks(T, u) ==
    /\ pc = [t \in T |-> "idle"]
    /\ call = [t \in T |-> NoCall]
    /\ frame = [t \in T |-> NoFrame]
    /\ ret = [t \in T |-> None]
    /\ sent = [t \in T |-> <<>>]
    /\ recv = [t \in T |-> <<>>]
    /\ inflight = [t \in T |-> <<>>]
    /\ token_manager = None
    /\ unbounded = u

Init == InitTasks({1}, FALSE)

\* the histories keep the first MaxRpcs entries
Log(log, x) == IF Len(log) < MaxRpcs THEN Append(log, x) ELSE log

\* the service may ask the client for one more round trip
MayContinue(t) == unbounded \/ Len(sent[t]) < MaxRpcs

\* the histories are full: only reachable when unbounded
Saturated(t) == Len(recv[t]) >= MaxRpcs

\* the call returns `result`
Return(t, result) ==
    /\ pc' = [pc EXCEPT ![t] = "done"]
    /\ ret' = [ret EXCEPT ![t] = Some(result)]

\* unwrap() on None, or panic!()
Panic(t) ==
    /\ pc' = [pc EXCEPT ![t] = "panicked"]
    /\ UNCHANGED ret

(***************************************************************************)
(* construct_request and the RPC itself                                    *)
(***************************************************************************)
\* mutant: the token manager is entered without waiting for the lock
construct_request_lock_not_exclusive(t) ==
    /\ pc[t] = "cr_lock"
    /\ token_manager' = Some(t)
    /\ pc' = [pc EXCEPT ![t] = "cr_token"]
    /\ UNCHANGED <<call, frame, ret, sent, recv, inflight, unbounded>>

\* client.rs 53: token_manager.lock().await
construct_request_lock(t) ==
    /\ pc[t] = "cr_lock"
    /\ token_manager = None
    /\ token_manager' = Some(t)
    /\ pc' = [pc EXCEPT ![t] = "cr_token"]
    /\ UNCHANGED <<call, frame, ret, sent, recv, inflight, unbounded>>

\* mutant: the caller does not wait for the answer before it goes on
await_rpc_not_awaited == "cr_token"

\* where the caller stands once its request is handed to the service:
\* `self.service.lookup(request).await` (129, 195, 233, 306)
await_rpc == "rpc"

\* mutant: the guard of the token lock lives on while the request is sent
construct_request_token_ok_guard_kept(t) ==
    /\ pc[t] = "cr_token"
    /\ token_manager' = token_manager
    /\ inflight' = [inflight EXCEPT ![t] = Append(@, Unwrap(frame[t].request))]
    /\ sent' = [sent EXCEPT ![t] = Log(@, Unwrap(frame[t].request))]
    /\ pc' = [pc EXCEPT ![t] = await_rpc]
    /\ UNCHANGED <<call, frame, ret, recv, unbounded>>

\* client.rs 53-56 and the call that follows: token().await succeeds, the
\* guard is dropped, the header is inserted and the request is sent
construct_request_token_ok(t) ==
    /\ pc[t] = "cr_token"
    /\ token_manager' = None
    /\ inflight' = [inflight EXCEPT ![t] = Append(@, Unwrap(frame[t].request))]
    /\ sent' = [sent EXCEPT ![t] = Log(@, Unwrap(frame[t].request))]
    /\ pc' = [pc EXCEPT ![t] = await_rpc]
    /\ UNCHANGED <<call, frame, ret, recv, unbounded>>

\* client.rs 53: token().await? fails
construct_request_token_err(t) ==
    /\ pc[t] = "cr_token"
    /\ token_manager' = None
    /\ Return(t, Err("token"))
    /\ UNCHANGED <<call, frame, sent, recv, inflight, unbounded>>

\* client.rs 55: token.parse().unwrap() on a token that is no header value
construct_request_token_invalid(t) ==
    /\ pc[t] = "cr_token"
    /\ token_manager' = None
    /\ Panic(t)
    /\ UNCHANGED <<call, frame, sent, recv, inflight, unbounded>>

\* mutant: a failed RPC is sent again instead of ending the call
rpc_error_retried(t) ==
    /\ pc[t] = "rpc"
    /\ inflight[t] /= <<>>
    /\ inflight' = [inflight EXCEPT ![t] = Tail(@)]
    /\ recv' = [recv EXCEPT ![t] = Log(@, Err("rpc"))]
    /\ pc' = [pc EXCEPT ![t] = IF MayContinue(t) THEN "cr_lock" ELSE "done"]
    /\ ret' = [ret EXCEPT ![t] = IF MayContinue(t) THEN @ ELSE Some(Err("rpc"))]
    /\ UNCHANGED <<call, frame, sent, token_manager, unbounded>>

\* the `?` after an RPC's .await: the service or the transport fails
rpc_error(t) ==
    /\ pc[t] = "rpc"
    /\ inflight[t] /= <<>>
    /\ inflight' = [inflight EXCEPT ![t] = Tail(@)]
    /\ recv' = [recv EXCEPT ![t] = Log(@, Err("rpc"))]
    /\ Return(t, Err("rpc"))
    /\ UNCHANGED <<call, frame, sent, token_manager, unbounded>>

(***************************************************************************)
(* Client::query                                                           *)
(***************************************************************************)
\* client.rs 245-304: the RunQueryRequest of one loop iteration
run_query_request(project_name, cur_query, cursor) ==
    [rpc |-> "run_query",
     partition_id |-> Some([project_id |-> project_name,
                            namespace_id |-> IF IsSome(cur_query.namespace)
                                             THEN Unwrap(cur_query.namespace) ELSE ""]),
     query_type |-> Some(
        [tag |-> "Query",
         query |->
           [kind |-> <<[name |-> cur_query.kind]>>,
            projection |-> [i \in 1..Len(cur_query.projections) |->
                               [property |-> Some([name |-> cur_query.projections[i]])]],
            filter |-> convert_filter(project_name, cur_query.filters),
            order |-> [i \in 1..Len(cur_query.ordering) |->
                          [property |-> Some([name |-> cur_query.ordering[i].name]),
                           direction |-> IF cur_query.ordering[i].tag = "Asc"
                                         THEN "Ascending" ELSE "Descending"]],
            offset |-> cur_query.offset,
            limit |-> cur_query.limit,
            start_cursor |-> cursor,
            end_cursor |-> <<>>,
            distinct_on |-> [i \in 1..Len(cur_query.distinct_on) |->
                                [name |-> cur_query.distinct_on[i]]]]]),
     read_options |-> Some([consistency_type |-> Some(
        [tag |-> "ReadConsistency",
         value |-> IF cur_query.eventual THEN "Eventual" ELSE "Strong"])]),
     project_id |-> project_name]

\* client.rs 239-243, then the first iteration up to construct_request
query_call(t, query) ==
    /\ pc[t] = "idle"
    /\ call' = [call EXCEPT ![t] = [method |-> "query", args |-> query]]
    /\ frame' = [frame EXCEPT ![t] =
                    [NoFrame EXCEPT !.cur_query = Some(query),
                                    !.request = Some(run_query_request(Project, query, <<>>))]]
    /\ pc' = [pc EXCEPT ![t] = "cr_lock"]
    /\ UNCHANGED <<ret, sent, recv, inflight, token_manager, unbounded>>

\* mutant: the batch replaces the output instead of extending it
extend_output_replacing(output, entity_results) ==
    [i \in 1..Len(entity_results) |-> Entity_from(Unwrap(entity_results[i].entity))]

\* mutant: the output is one buffer shared by all the calls on the client
extend_output_shared(output, entity_results) ==
    Flatten([u \in Tasks |-> frame[u].output])
        \o [i \in 1..Len(entity_results) |->
                Entity_from(Unwrap(entity_results[i].entity))]

\* client.rs 309-314: output.extend(entity results as local entities)
extend_output(output, entity_results) ==
    output \o [i \in 1..Len(entity_results) |->
                  Entity_from(Unwrap(entity_results[i].entity))]

\* mutant: the loop goes on until the service reports NoMoreResults
query_continues_until_no_more(more_results) == more_results /= "NoMoreResults"

\* client.rs 316-320: the loop goes on only for NotFinished
query_continues(more_results) == more_results = "NotFinished"

\* mutant: the next page is asked for without the offset
next_cur_query_offset_dropped(query, cur_query) == [query EXCEPT !.offset = 0]

\* client.rs 322: cur_query = query.clone()
next_cur_query(query, cur_query) == query

\* client.rs 323: cursor = results.end_cursor
next_cursor(cursor, results) == results.end_cursor

\* what the service may answer to the RunQuery in flight
RunQueryResponses(t) ==
    {[batch |-> None]} \cup
    {[batch |-> Some([entity_results |-> es, more_results |-> m, end_cursor |-> c])] :
        es \in IF Saturated(t) THEN {<<>>} ELSE BatchEntities,
        m \in IF MayContinue(t) THEN MoreResultsTypes
              ELSE MoreResultsTypes \ {"NotFinished"},
        c \in Cursors}

\* client.rs 306-324: the answer to run_query arrives
run_query_handle(t, response) ==
    /\ inflight' = [inflight EXCEPT ![t] = Tail(@)]
    /\ recv' = [recv EXCEPT ![t] = Log(@, Ok(response))]
    /\ IF \/ response.batch = None
          \/ \E i \in 1..Len(Unwrap(response.batch).entity_results) :
                Unwrap(response.batch).entity_results[i].entity = None
       THEN Panic(t) /\ UNCHANGED frame
       ELSE LET results == Unwrap(response.batch)
                output == extend_output(frame[t].output, results.entity_results)
            IN  IF ~query_continues(results.more_results)
                THEN /\ Return(t, Ok(output))
                     /\ frame' = [frame EXCEPT ![t].output = output]
                ELSE LET cur_query == next_cur_query(call[t].args,
                                                     Unwrap(frame[t].cur_query))
                         cursor == next_cursor(frame[t].cursor, results)
                     IN  /\ frame' = [frame EXCEPT
                                ![t].output = output,
                                ![t].cur_query = Some(cur_query),
                                ![t].cursor = cursor,
                                ![t].request =
                                    Some(run_query_request(Project, cur_query, cursor))]
                         /\ pc' = [pc EXCEPT ![t] = "cr_lock"]
                         /\ UNCHANGED ret
    /\ UNCHANGED <<call, sent, token_manager, unbounded>>

run_query_response(t) ==
    /\ pc[t] = "rpc"
    /\ inflight[t] /= <<>>
    /\ Head(inflight[t]).rpc = "run_query"
    /\ \E response \in RunQueryResponses(t) : run_query_handle(t, response)

(***************************************************************************)
(* Client::get_all and Client::get                                         *)
(***************************************************************************)
\* client.rs 123-127
lookup_request(project_name, keys) ==
    [rpc |-> "lookup", keys |-> keys, project_id |-> project_name, read_options |-> None]

\* mutant: an insertion evicts the entries of the other keys
insert_evicting(map, k, v) == [x \in {k} |-> v]

\* HashMap::insert
insert(map, k, v) == [x \in DOMAIN map \cup {k} |-> IF x = k THEN v ELSE map[x]]

\* mutant: the entities of a response replace those found before
RECURSIVE from_results(_, _)
from_results(found, results) ==
    IF results = <<>> THEN found
    ELSE LET entity == Entity_from(Unwrap(Head(results).entity))
         IN  from_results(insert(found, entity.key, entity.properties), Tail(results))
extend_found_replacing(found, results) == from_results(EmptyMap, results)

\* client.rs 132-139: found.extend(found entities as (key, properties))
RECURSIVE extend_found(_, _)
extend_found(found, results) ==
    IF results = <<>> THEN found
    ELSE LET entity == Entity_from(Unwrap(Head(results).entity))
         IN  extend_found(insert(found, entity.key, entity.properties), Tail(results))

\* mutant: the loop asks again for all the keys of the request, not only
\* for the deferred ones
next_keys_all(keys, response) == IF response.deferred = <<>> THEN <<>> ELSE keys

\* client.rs 141: keys = response.deferred
next_keys(keys, response) == response.deferred

\* mutant: the loop body runs whether or not keys remain
lookup_continues_unconditionally(keys) == TRUE

\* mutant: a single remaining key is not looked up
lookup_continues_off_by_one(keys) == Len(keys) > 1

\* client.rs 122: while !keys.is_empty()
lookup_continues(keys) == keys /= <<>>

\* mutant: the entities are read from the map with get, not taken out of it
RECURSIVE collect_values_not_removed(_, _)
collect_values_not_removed(og_keys, found) ==
    IF og_keys = <<>> THEN <<>>
    ELSE (IF Head(og_keys) \in DOMAIN found THEN <<found[Head(og_keys)]>> ELSE <<>>)
            \o collect_values_not_removed(Tail(og_keys), found)

\* client.rs 144-148: og_keys.flat_map(|key| found.remove(key))
RECURSIVE collect_values(_, _)
collect_values(og_keys, found) ==
    IF og_keys = <<>> THEN <<>>
    ELSE LET key == Head(og_keys)
         IN  IF key \in DOMAIN found
             THEN <<found[key]>> \o
                  collect_values(Tail(og_keys),
                                 [x \in DOMAIN found \ {key} |-> found[x]])
             ELSE collect_values(Tail(og_keys), found)

\* client.rs 104-105 (get) and 150 (get_all): the value the call returns
get_result(method, values) ==
    IF method = "get"
    THEN Ok(IF values = <<>> THEN None ELSE Some(Head(values)))
    ELSE Ok(values)

\* client.rs 115-122: the locals, then the loop is entered or skipped
get_all_begin(t, method, arg, og_keys) ==
    LET keys == [i \in 1..Len(og_keys) |-> convert_key(Project, og_keys[i])]
    IN  /\ pc[t] = "idle"
        /\ call' = [call EXCEPT ![t] = [method |-> method, args |-> arg]]
        /\ IF lookup_continues(keys)
           THEN /\ frame' = [frame EXCEPT ![t] =
                        [NoFrame EXCEPT !.og_keys = og_keys, !.keys = keys,
                                        !.request = Some(lookup_request(Project, keys))]]
                /\ pc' = [pc EXCEPT ![t] = "cr_lock"]
                /\ UNCHANGED ret
           ELSE /\ frame' = [frame EXCEPT ![t] =
                        [NoFrame EXCEPT !.og_keys = og_keys, !.keys = keys]]
                /\ Return(t, get_result(method, collect_values(og_keys, EmptyMap)))
        /\ UNCHANGED <<sent, recv, inflight, token_manager, unbounded>>

get_all_call(t, keys) == get_all_begin(t, "get_all", keys, keys)

\* client.rs 99-106: get_all(Some(key))
get_call(t, key) == get_all_begin(t, "get", key, <<key>>)

\* the version of the data the service answers the next request from
Version(t) == IF Len(recv[t]) < MaxRpcs THEN Len(recv[t]) + 1 ELSE MaxRpcs

\* the elements of seq at the positions that `choice` maps to `what`
RECURSIVE Chosen(_, _, _, _)
Chosen(seq, choice, what, i) ==
    IF i > Len(seq) THEN <<>>
    ELSE (IF choice[i] = what THEN <<seq[i]>> ELSE <<>>)
            \o Chosen(seq, choice, what, i + 1)

\* what the service may answer to the lookup in flight: every requested key
\* is found, missing or deferred
LookupResponses(t) ==
    LET keys == Head(inflight[t]).keys
        outcomes == IF MayContinue(t) THEN {"found", "missing", "deferred"}
                    ELSE {"found", "missing"}
    IN  {[found |-> <<EntityResult(None)>>, deferred |-> <<>>]} \cup
        {[found |-> [i \in 1..Len(Chosen(keys, c, "found", 1)) |->
                        EntityResult(Some(ServerEntity(Chosen(keys, c, "found", 1)[i],
                                                       Version(t))))],
          deferred |-> Chosen(keys, c, "deferred", 1)] :
            c \in [1..Len(keys) -> outcomes]}

\* client.rs 129-150: the answer to lookup arrives
lookup_handle(t, response) ==
    /\ inflight' = [inflight EXCEPT ![t] = Tail(@)]
    /\ recv' = [recv EXCEPT ![t] = Log(@, Ok(response))]
    /\ IF \E i \in 1..Len(response.found) : response.found[i].entity = None
       THEN Panic(t) /\ UNCHANGED frame
       ELSE LET found == extend_found(frame[t].found, response.found)
                keys == next_keys(frame[t].keys, response)
            IN  IF lookup_continues(keys)
                THEN /\ frame' = [frame EXCEPT
                            ![t].found = found,
                            ![t].keys = keys,
                            ![t].request = Some(lookup_request(Project, keys))]
                     /\ pc' = [pc EXCEPT ![t] = "cr_lock"]
                     /\ UNCHANGED ret
                ELSE /\ frame' = [frame EXCEPT ![t].found = found, ![t].keys = keys]
                     /\ Return(t, get_result(call[t].method,
                                             collect_values(frame[t].og_keys, found)))
    /\ UNCHANGED <<call, sent, token_manager, unbounded>>

lookup_response(t) ==
    /\ pc[t] = "rpc"
    /\ inflight[t] /= <<>>
    /\ Head(inflight[t]).rpc = "lookup"
    /\ \E response \in LookupResponses(t) : lookup_handle(t, response)

(***************************************************************************)
(* Client::put_all, put, delete_all, delete                                *)
(***************************************************************************)
\* mutant: every entity is upserted
put_mutation_always_upsert(project_name, entity) ==
    [operation |-> Some([tag |-> "Upsert", entity |-> convert_entity(project_name, entity)]),
     conflict_detection_strategy |-> None]

\* client.rs 174-184: the mutation of one entity
put_mutation(project_name, entity) ==
    [operation |->
        IF is_incomplete(entity.key)
        THEN Some([tag |-> "Insert", entity |-> convert_entity(project_name, entity)])
        ELSE Some([tag |-> "Upsert", entity |-> convert_entity(project_name, entity)]),
     conflict_detection_strategy |-> None]

\* client.rs 219-223: the mutation of one key
delete_mutation(project_name, key) ==
    [operation |-> Some([tag |-> "Delete", key |-> convert_key(project_name, key)]),
     conflict_detection_strategy |-> None]

\* mutant: the mode is left at its default, which the service reads as transactional
commit_request_default_mode(project_name, mutations) ==
    [rpc |-> "commit",
     mutations |-> mutations,
     mode |-> "Unspecified",
     transaction_selector |-> None,
     project_id |-> project_name]

\* client.rs 188-193 and 226-231
commit_request(project_name, mutations) ==
    [rpc |-> "commit",
     mutations |-> mutations,
     mode |-> "NonTransactional",
     transaction_selector |-> None,
     project_id |-> project_name]

\* client.rs 172-186
put_mutations(project_name, entities) ==
    [i \in 1..Len(entities) |-> put_mutation(project_name, entities[i])]

\* client.rs 217-224
delete_mutations(project_name, keys) ==
    [i \in 1..Len(keys) |-> delete_mutation(project_name, keys[i])]

\* mutant: the inputs that fail to convert are left out, the others committed
put_all_begin_skips_failed(t, method, arg, items) ==
    /\ pc[t] = "idle"
    /\ call' = [call EXCEPT ![t] = [method |-> method, args |-> arg]]
    /\ LET entities == [i \in 1..Len(SelectSeq(items, LAMBDA x : x.tag = "Ok")) |->
                            SelectSeq(items, LAMBDA x : x.tag = "Ok")[i].entity]
       IN  IF \E i \in 1..Len(entities) : entity_panics(entities[i])
           THEN Panic(t) /\ UNCHANGED frame
           ELSE /\ frame' = [frame EXCEPT ![t] =
                       [NoFrame EXCEPT !.request =
                           Some(commit_request(Project,
                                               put_mutations(Project, entities)))]]
                /\ pc' = [pc EXCEPT ![t] = "cr_lock"]
                /\ UNCHANGED ret
    /\ UNCHANGED <<sent, recv, inflight, token_manager, unbounded>>

\* client.rs 168-194: into_entity on every input, the mutations, the request
put_all_begin(t, method, arg, items) ==
    /\ pc[t] = "idle"
    /\ call' = [call EXCEPT ![t] = [method |-> method, args |-> arg]]
    /\ IF \E i \in 1..Len(items) : items[i].tag = "Err"
       THEN Return(t, Err("into_entity")) /\ UNCHANGED frame
       ELSE LET entities == [i \in 1..Len(items) |-> items[i].entity]
            IN  IF \E i \in 1..Len(entities) : entity_panics(entities[i])
                THEN Panic(t) /\ UNCHANGED frame
                ELSE /\ frame' = [frame EXCEPT ![t] =
                            [NoFrame EXCEPT !.request =
                                Some(commit_request(Project,
                                                    put_mutations(Project, entities)))]]
                     /\ pc' = [pc EXCEPT ![t] = "cr_lock"]
                     /\ UNCHANGED ret
    /\ UNCHANGED <<sent, recv, inflight, token_manager, unbounded>>

put_all_call(t, items) == put_all_begin(t, "put_all", items, items)

\* client.rs 155-159: into_entity()?, then put_all(Some(entity))
put_call(t, item) == put_all_begin(t, "put", item, <<item>>)

\* mutant: with no keys the call returns at once, without a commit
delete_all_begin_skips_empty(t, method, arg, keys) ==
    /\ pc[t] = "idle"
    /\ call' = [call EXCEPT ![t] = [method |-> method, args |-> arg]]
    /\ IF keys = <<>>
       THEN Return(t, Ok(<<>>)) /\ UNCHANGED frame
       ELSE /\ frame' = [frame EXCEPT ![t] =
                    [NoFrame EXCEPT !.request =
                        Some(commit_request(Project, delete_mutations(Project, keys)))]]
            /\ pc' = [pc EXCEPT ![t] = "cr_lock"]
            /\ UNCHANGED ret
    /\ UNCHANGED <<sent, recv, inflight, token_manager, unbounded>>

\* client.rs 212-232
delete_all_begin(t, method, arg, keys) ==
    /\ pc[t] = "idle"
    /\ call' = [call EXCEPT ![t] = [method |-> method, args |-> arg]]
    /\ frame' = [frame EXCEPT ![t] =
            [NoFrame EXCEPT !.request =
                Some(commit_request(Project, delete_mutations(Project, keys)))]]
    /\ pc' = [pc EXCEPT ![t] = "cr_lock"]
    /\ UNCHANGED <<ret, sent, recv, inflight, token_manager, unbounded>>

delete_all_call(t, keys) == delete_all_begin(t, "delete_all", keys, keys)

\* client.rs 207-209: delete_all(Some(key))
delete_call(t, key) == delete_all_begin(t, "delete", key, <<key>>)

\* the key the service allocates for a mutation whose key is incomplete
Allocate(wire_key) ==
    [wire_key EXCEPT !.path[Len(wire_key.path)].id_type = Some([tag |-> "Id", id |-> 9])]

MutationKey(mutation) ==
    LET o == Unwrap(mutation.operation)
    IN  IF o.tag = "Delete" THEN o.key ELSE Unwrap(o.entity.key)

\* what the service may answer to the commit in flight: one result per
\* mutation, with a key only where it allocated one, or no result at all
CommitResponses(t) ==
    LET ms == Head(inflight[t]).mutations
        auto == {i \in 1..Len(ms) :
                    /\ Unwrap(ms[i].operation).tag /= "Delete"
                    /\ MutationKey(ms[i]).path[Len(MutationKey(ms[i]).path)].id_type = None}
    IN  {[mutation_results |-> <<>>]} \cup
        {[mutation_results |->
            [i \in 1..Len(ms) |->
                [key |-> IF i \in allocated THEN Some(Allocate(MutationKey(ms[i])))
                         ELSE None]]] :
            allocated \in {auto, {}}}

\* mutant: mutation results without a key are skipped, not kept as None
commit_result_keys_only(method, response) ==
    LET present == SelectSeq(response.mutation_results, LAMBDA r : IsSome(r.key))
        keys == [i \in 1..Len(present) |-> Some(Key_from(Unwrap(present[i].key)))]
    IN  CASE method = "put_all" -> Ok(keys)
          [] method = "put" -> Ok(IF keys = <<>> THEN None ELSE Head(keys))
          [] OTHER -> Ok(<<>>)

\* client.rs 197-203 (put_all), 158 (put), 235 (delete_all, delete)
commit_result(method, response) ==
    LET keys == [i \in 1..Len(response.mutation_results) |->
                    IF IsSome(response.mutation_results[i].key)
                    THEN Some(Key_from(Unwrap(response.mutation_results[i].key)))
                    ELSE None]
    IN  CASE method = "put_all" -> Ok(keys)
          [] method = "put" -> Ok(IF keys = <<>> THEN None ELSE Head(keys))
          [] OTHER -> Ok(<<>>)

\* client.rs 195-203 and 233-235: the answer to commit arrives
commit_handle(t, response) ==
    /\ inflight' = [inflight EXCEPT ![t] = Tail(@)]
    /\ recv' = [recv EXCEPT ![t] = Log(@, Ok(response))]
    /\ Return(t, commit_result(call[t].method, response))
    /\ UNCHANGED <<call, frame, sent, token_manager, unbounded>>

commit_response(t) ==
    /\ pc[t] = "rpc"
    /\ inflight[t] /= <<>>
    /\ Head(inflight[t]).rpc = "commit"
    /\ \E response \in CommitResponses(t) : commit_handle(t, response)

(***************************************************************************)
(* The next-state relation.                                                *)
(***************************************************************************)
QueryCall == \E t \in Tasks, q \in Queries : query_call(t, q)
GetAllCall == \E t \in Tasks, keys \in KeyLists : get_all_call(t, keys)
GetCall == \E t \in Tasks, key \in {K1, KInc, K4, KNs, KBadParent, KAncNs} : get_call(t, key)
PutAllCall == \E t \in Tasks, items \in EntityLists : put_all_call(t, items)
PutCall ==
    \E t \in Tasks, item \in {IntoOk(Entity(KInc, Props(1))), IntoErr} : put_call(t, item)
DeleteAllCall == \E t \in Tasks, keys \in KeyLists : delete_all_call(t, keys)
DeleteCall == \E t \in Tasks, key \in {K2, KInc} : delete_call(t, key)
Lock == \E t \in Tasks : construct_request_lock(t)
TokenOk == \E t \in Tasks : construct_request_token_ok(t)
TokenErr == \E t \in Tasks : construct_request_token_err(t)
TokenInvalid == \E t \in Tasks : construct_request_token_invalid(t)
RpcError == \E t \in Tasks : rpc_error(t)
RunQueryResponse == \E t \in Tasks : run_query_response(t)
LookupResponse == \E t \in Tasks : lookup_response(t)
CommitResponse == \E t \in Tasks : commit_response(t)

Next ==
    \/ QueryCall
    \/ GetAllCall
    \/ GetCall
    \/ PutAllCall
    \/ PutCall
    \/ DeleteAllCall
    \/ DeleteCall
    \/ Lock
    \/ TokenOk
    \/ TokenErr
    \/ TokenInvalid
    \/ RpcError
    \/ RunQueryResponse
    \/ LookupResponse
    \/ CommitResponse

Spec == Init /\ [][Next]_vars

\* The same client against a service that may ask for more without end; the
\* executor keeps running the task and every RPC is answered.
InitUnbounded == InitTasks({1}, TRUE)
SpecLive == InitUnbounded /\ [][Next]_vars /\ WF_vars(Next)

(***************************************************************************)
(* Two calls running at once on a client and its clone.  The clones share  *)
(* the token manager; the callers' inputs and the service's answers are    *)
(* drawn from smaller sets than above.                                     *)
(***************************************************************************)
ConcQueries == {QPlain}
ConcKeyLists == {<<K1, K2>>}
ConcBatchEntities ==
    { <<EntityResult(Some(ServerEntity(convert_key(Project, K2), 2))),
        EntityResult(Some(ServerEntity(convert_key(Project, K1), 3)))>> }

ConcRunQueryResponses(t) ==
    {[batch |-> Some([entity_results |-> es, more_results |-> m, end_cursor |-> c])] :
        es \in ConcBatchEntities,
        m \in IF MayContinue(t) THEN {"NotFinished", "NoMoreResults"}
              ELSE {"NoMoreResults"},
        c \in Cursors}

conc_run_query_response(t) ==
    /\ pc[t] = "rpc"
    /\ inflight[t] /= <<>>
    /\ Head(inflight[t]).rpc = "run_query"
    /\ \E response \in ConcRunQueryResponses(t) : run_query_handle(t, response)

ConcQueryCall == \E t \in Tasks, q \in ConcQueries : query_call(t, q)
ConcGetAllCall == \E t \in Tasks, keys \in ConcKeyLists : get_all_call(t, keys)
ConcRunQueryResponse == \E t \in Tasks : conc_run_query_response(t)

NextConc ==
    \/ ConcQueryCall
    \/ ConcGetAllCall
    \/ PutCall
    \/ Lock
    \/ TokenOk
    \/ TokenErr
    \/ RpcError
    \/ ConcRunQueryResponse
    \/ LookupResponse
    \/ CommitResponse

InitConc == InitTasks({1, 2}, FALSE)
SpecConc == InitConc /\ [][NextConc]_vars


(***************************************************************************)
(* What the claims are stated in.                                          *)
(***************************************************************************)
ReturnedOk(t) == pc[t] = "done" /\ ret[t] /= None /\ Unwrap(ret[t]).tag = "Ok"
ReturnedErr(t, e) == pc[t] = "done" /\ ret[t] = Some(Err(e))
IsQuery(t) == call[t].method = "query"
IsLookup(t) == call[t].method \in {"get", "get_all"}
IsCommit(t) == call[t].method \in {"put", "put_all", "delete", "delete_all"}

\* the i-th answer is a RunQuery batch the client reads without panicking
GoodBatch(t, i) ==
    /\ recv[t][i].tag = "Ok"
    /\ recv[t][i].value.batch /= None
    /\ \A j \in 1..Len(Unwrap(recv[t][i].value.batch).entity_results) :
            Unwrap(recv[t][i].value.batch).entity_results[j].entity /= None
Batch(t, i) == Unwrap(recv[t][i].value.batch)
BatchLocal(t, i) ==
    [j \in 1..Len(Batch(t, i).entity_results) |->
        Entity_from(Unwrap(Batch(t, i).entity_results[j].entity))]

\* the i-th answer is a lookup response the client reads without panicking
GoodLookup(t, i) ==
    /\ recv[t][i].tag = "Ok"
    /\ \A j \in 1..Len(recv[t][i].value.found) : recv[t][i].value.found[j].entity /= None
Deferred(t, i) == recv[t][i].value.deferred

\* the caller's argument as a list
InputList(t) ==
    IF call[t].method \in {"get", "put", "delete"} THEN <<call[t].args>> ELSE call[t].args

\* the elements of a sequence, as a set
Range(seq) == {seq[i] : i \in 1..Len(seq)}

(***************************************************************************)
(* C1: a query whose first n-1 batches report NotFinished and whose n-th   *)
(* batch reports any other state issues exactly n RunQuery calls and       *)
(* returns the entities of batch 1, ..., batch n concatenated in order;    *)
(* and it does return as soon as such an n-th batch has arrived.           *)
(***************************************************************************)
C1_QueryPagination ==
    \A t \in Tasks : IsQuery(t) =>
        LET n == Len(recv[t])
        IN  /\ ReturnedOk(t) =>
                /\ n >= 1
                /\ Len(sent[t]) = n
                /\ inflight[t] = <<>>
                /\ \A i \in 1..n : sent[t][i].rpc = "run_query" /\ GoodBatch(t, i)
                /\ \A i \in 1..(n - 1) : Batch(t, i).more_results = "NotFinished"
                /\ Batch(t, n).more_results /= "NotFinished"
                /\ Unwrap(ret[t]).value = Flatten([i \in 1..n |-> BatchLocal(t, i)])
            /\ (n >= 1 /\ GoodBatch(t, n) /\ Batch(t, n).more_results /= "NotFinished")
                    => ReturnedOk(t)

\* three batches, the first two NotFinished, the third NoMoreResults, five
\* entities returned in all
C1_Witness ==
    \E t \in Tasks :
        /\ IsQuery(t) /\ ReturnedOk(t)
        /\ Len(sent[t]) = 3 /\ Len(recv[t]) = 3
        /\ Batch(t, 3).more_results = "NoMoreResults"
        /\ Len(Batch(t, 1).entity_results) = 2
        /\ Len(Batch(t, 2).entity_results) = 1
        /\ Len(Batch(t, 3).entity_results) = 2
        /\ Len(Unwrap(ret[t]).value) = 5

(***************************************************************************)
(* C2: within one query call the first request carries an empty start      *)
(* cursor, request k+1 carries the end_cursor of batch k, and every other  *)
(* field of every request is the conversion of the caller's Query          *)
(* (offset and limit included).                                            *)
(***************************************************************************)
RequestQuery(req) == Unwrap(req.query_type).query
WithoutCursor(req) ==
    [req EXCEPT !.query_type = Some([Unwrap(@) EXCEPT !.query.start_cursor = <<>>])]

C2_OnlyCursorAdvances ==
    \A t \in Tasks : IsQuery(t) =>
        \A i \in 1..Len(sent[t]) :
            LET req == sent[t][i]
                q == RequestQuery(req)
                orig == call[t].args
            IN  /\ q.start_cursor = IF i = 1 THEN <<>> ELSE Batch(t, i - 1).end_cursor
                /\ q.kind = <<[name |-> orig.kind]>>
                /\ q.offset = orig.offset
                /\ q.limit = orig.limit
                /\ Len(q.projection) = Len(orig.projections)
                /\ \A j \in 1..Len(q.projection) :
                        q.projection[j].property = Some([name |-> orig.projections[j]])
                /\ (q.filter = None) <=> (orig.filters = <<>>)
                /\ q.filter /= None =>
                        /\ Len(Unwrap(q.filter).filters) = Len(orig.filters)
                        /\ \A j \in 1..Len(orig.filters) :
                            Unwrap(q.filter).filters[j].property =
                                Some([name |-> orig.filters[j].name])
                /\ Len(q.order) = Len(orig.ordering)
                /\ \A j \in 1..Len(q.order) :
                        /\ q.order[j].property = Some([name |-> orig.ordering[j].name])
                        /\ (q.order[j].direction = "Ascending")
                                <=> (orig.ordering[j].tag = "Asc")
                /\ q.distinct_on = [j \in 1..Len(orig.distinct_on) |->
                                        [name |-> orig.distinct_on[j]]]
                /\ q.end_cursor = <<>>
                /\ Unwrap(req.partition_id).project_id = Project
                /\ Unwrap(req.partition_id).namespace_id =
                        (IF orig.namespace = None THEN "" ELSE Unwrap(orig.namespace))
                /\ (Unwrap(Unwrap(req.read_options).consistency_type).value = "Eventual")
                        <=> orig.eventual
                /\ req.project_id = Project
                /\ WithoutCursor(req) = WithoutCursor(sent[t][1])

\* the third request of a query with offset, limit, filters and orderings,
\* sent after batches that ended at cursors <<1>> and <<2>>
C2_Witness ==
    \E t \in Tasks :
        /\ IsQuery(t) /\ call[t].args = QFull
        /\ Len(sent[t]) = 3
        /\ RequestQuery(sent[t][1]).start_cursor = <<>>
        /\ RequestQuery(sent[t][2]).start_cursor = <<1>>
        /\ RequestQuery(sent[t][3]).start_cursor = <<2>>
        /\ RequestQuery(sent[t][3]).offset = 2
        /\ RequestQuery(sent[t][3]).limit = Some(5)

(***************************************************************************)
(* C3: after a batch the query goes on to another RunQuery call if and     *)
(* only if the batch reports NotFinished; any other value ends the loop    *)
(* and the call returns everything accumulated, that batch included.       *)
(***************************************************************************)
C3_ContinuesIffNotFinished ==
    \A t \in Tasks : IsQuery(t) =>
        /\ \A i \in 1..Len(recv[t]) : GoodBatch(t, i) =>
                /\ (Batch(t, i).more_results = "NotFinished")
                        <=> (i < Len(sent[t]) \/ ~ReturnedOk(t))
                /\ (Batch(t, i).more_results /= "NotFinished")
                        => (i = Len(recv[t]) /\ i = Len(sent[t]) /\ ReturnedOk(t))
        /\ ReturnedOk(t) =>
                /\ \A i \in 1..Len(recv[t]) : GoodBatch(t, i)
                /\ Unwrap(ret[t]).value =
                        Flatten([i \in 1..Len(recv[t]) |-> BatchLocal(t, i)])

\* a second batch that reports Unspecified, with entities, ends the loop
C3_Witness ==
    \E t \in Tasks :
        /\ IsQuery(t) /\ ReturnedOk(t)
        /\ Len(recv[t]) = 2
        /\ Batch(t, 1).more_results = "NotFinished"
        /\ Batch(t, 2).more_results = "Unspecified"
        /\ Len(Batch(t, 2).entity_results) = 2
        /\ Len(Unwrap(ret[t]).value) = 3

(***************************************************************************)
(* C4 (as amended): a get_all that returns has issued exactly as many      *)
(* lookups as it received responses, all but the last response deferred    *)
(* some key and the last deferred none, and every requested key that some  *)
(* response reported found has an entity in the result: the one reported   *)
(* last for it.                                                            *)
(***************************************************************************)
\* the entities the responses reported found, in the order they arrived
Reports(t) ==
    Flatten([i \in 1..Len(recv[t]) |->
                [j \in 1..Len(recv[t][i].value.found) |->
                    Entity_from(Unwrap(recv[t][i].value.found[j].entity))]])

LookupRounds(t) ==
    LET n == Len(recv[t])
    IN  /\ Len(sent[t]) = n
        /\ inflight[t] = <<>>
        /\ \A i \in 1..n : sent[t][i].rpc = "lookup" /\ GoodLookup(t, i)
        /\ \A i \in 1..(n - 1) : Deferred(t, i) /= <<>>
        /\ n >= 1 => Deferred(t, n) = <<>>

C4_DeferredLookup ==
    \A t \in Tasks : (call[t].method = "get_all" /\ ReturnedOk(t)) =>
        /\ LookupRounds(t)
        /\ \A r \in 1..Len(Reports(t)) :
                (/\ Reports(t)[r].key \in Range(call[t].args)
                 /\ \A r2 \in (r + 1)..Len(Reports(t)) :
                        Reports(t)[r2].key /= Reports(t)[r].key)
                    => Reports(t)[r].properties \in Range(Unwrap(ret[t]).value)

\* the spec's scenario: k1 found and k2, k3 deferred, then k2 and k3 found
C4_Witness ==
    \E t \in Tasks :
        /\ call[t].method = "get_all" /\ ReturnedOk(t)
        /\ call[t].args = <<K1, K2, K3>>
        /\ Len(sent[t]) = 2 /\ Len(recv[t]) = 2
        /\ Len(recv[t][1].value.found) = 1
        /\ Deferred(t, 1) = <<convert_key(Project, K2), convert_key(Project, K3)>>
        /\ sent[t][2].keys = Deferred(t, 1)
        /\ Len(recv[t][2].value.found) = 2
        /\ Deferred(t, 2) = <<>>
        /\ Len(Unwrap(ret[t]).value) = 3

\* C4 as it was stated: every entity that any response reported found for a
\* requested key is in the result
C4_EveryFoundEntityReturned ==
    \A t \in Tasks : (call[t].method = "get_all" /\ ReturnedOk(t)) =>
        /\ LookupRounds(t)
        /\ \A r \in 1..Len(Reports(t)) :
                Reports(t)[r].key \in Range(call[t].args)
                    => Reports(t)[r].properties \in Range(Unwrap(ret[t]).value)

C6_EveryCallReturns == <>(\A t \in Tasks : pc[t] \in {"done", "panicked"})

(***************************************************************************)
(* C7: a call has at most one RPC outstanding: request k+1 is handed to    *)
(* the service only after the answer to request k has arrived.             *)
(***************************************************************************)
C7_OneRpcOutstanding ==
    \A t \in Tasks :
        /\ Len(inflight[t]) <= 1
        /\ Len(sent[t]) = Len(recv[t]) + Len(inflight[t])
        /\ (inflight[t] /= <<>>) <=> (pc[t] = "rpc")
        /\ inflight[t] /= <<>> => Head(inflight[t]) = sent[t][Len(sent[t])]

\* the third lookup of a get_all is outstanding, two answers have arrived
C7_Witness ==
    \E t \in Tasks :
        /\ IsLookup(t)
        /\ Len(inflight[t]) = 1
        /\ Len(sent[t]) = 3 /\ Len(recv[t]) = 2

(***************************************************************************)
(* C8: the mutation put / put_all assembles for an entity is an Insert if  *)
(* and only if the terminal path element of its key has no identifier, and *)
(* an Upsert otherwise; never an Update or a Delete.                       *)
(***************************************************************************)
Operation(mutation) == Unwrap(mutation.operation)
LastElement(wire_key) == wire_key.path[Len(wire_key.path)]

C8_InsertIffIncomplete ==
    \A t \in Tasks : call[t].method \in {"put", "put_all"} =>
        \A i \in 1..Len(sent[t]) :
            /\ sent[t][i].rpc = "commit"
            /\ Len(sent[t][i].mutations) = Len(InputList(t))
            /\ \A j \in 1..Len(sent[t][i].mutations) :
                LET o == Operation(sent[t][i].mutations[j])
                IN  /\ o.tag \in {"Insert", "Upsert"}
                    /\ (o.tag = "Insert") <=> (InputList(t)[j].entity.key.id = Incomplete)
                    /\ (o.tag = "Insert")
                            <=> (LastElement(Unwrap(o.entity.key)).id_type = None)

\* one commit carrying an Insert (incomplete key) and an Upsert (complete key)
C8_Witness ==
    \E t \in Tasks :
        /\ call[t].method = "put_all"
        /\ Len(sent[t]) = 1
        /\ Len(sent[t][1].mutations) = 2
        /\ Operation(sent[t][1].mutations[1]).tag = "Insert"
        /\ Operation(sent[t][1].mutations[2]).tag = "Upsert"

(***************************************************************************)
(* C9: every Delete mutation sent by delete / delete_all carries a         *)
(* complete key: its terminal path element has an id or a name.            *)
(***************************************************************************)
C9_DeleteKeysComplete ==
    \A t \in Tasks : call[t].method \in {"delete", "delete_all"} =>
        \A i \in 1..Len(sent[t]) :
            \A j \in 1..Len(sent[t][i].mutations) :
                LastElement(Operation(sent[t][i].mutations[j]).key).id_type /= None

(***************************************************************************)
(* C10: a put_all or delete_all over m elements that reaches the service   *)
(* submits exactly one commit: m mutations in input order, mode            *)
(* NON_TRANSACTIONAL, no transaction selector; no other RPC is issued.     *)
(***************************************************************************)
C10_OneNonTransactionalCommit ==
    \A t \in Tasks : IsCommit(t) =>
        /\ Len(sent[t]) <= 1
        /\ (pc[t] = "rpc" \/ Len(recv[t]) >= 1 \/ ReturnedOk(t)) => Len(sent[t]) = 1
        /\ \A i \in 1..Len(sent[t]) :
            LET req == sent[t][i]
                m == Len(InputList(t))
            IN  /\ req.rpc = "commit"
                /\ req.mode = "NonTransactional"
                /\ req.transaction_selector = None
                /\ req.project_id = Project
                /\ Len(req.mutations) = m
                /\ \A j \in 1..m :
                    IF call[t].method \in {"delete", "delete_all"}
                    THEN /\ Operation(req.mutations[j]).tag = "Delete"
                         /\ Operation(req.mutations[j]).key =
                                convert_key(Project, InputList(t)[j])
                    ELSE /\ Operation(req.mutations[j]).tag \in {"Insert", "Upsert"}
                         /\ Operation(req.mutations[j]).entity.key =
                                Some(convert_key(Project, InputList(t)[j].entity.key))

\* a put_all of three entities has returned after its single commit
C10_Witness ==
    \E t \in Tasks :
        /\ call[t].method = "put_all" /\ ReturnedOk(t)
        /\ Len(call[t].args) = 3
        /\ Len(sent[t]) = 1 /\ Len(recv[t]) = 1
        /\ Len(sent[t][1].mutations) = 3
        /\ sent[t][1].mode = "NonTransactional"

(***************************************************************************)
(* C11: the i-th element of put_all's result is the key of the i-th        *)
(* mutation result of the commit response, converted to a local key, or    *)
(* None where the service set none: one element per mutation result.  put  *)
(* returns the first element, or None when there is none.  A key the       *)
(* service generated for an incomplete key comes back complete, with the   *)
(* kind and ancestors of the key that was sent.                            *)
(***************************************************************************)
MutationResults(t) == recv[t][1].value.mutation_results

C11_ReturnedKeys ==
    \A t \in Tasks : (call[t].method \in {"put", "put_all"} /\ ReturnedOk(t)) =>
        LET results == MutationResults(t)
            keys == Unwrap(ret[t]).value
        IN  /\ Len(recv[t]) = 1 /\ recv[t][1].tag = "Ok"
            /\ call[t].method = "put_all" =>
                /\ Len(keys) = Len(results)
                /\ \A i \in 1..Len(results) :
                    /\ (keys[i] = None) <=> (results[i].key = None)
                    /\ keys[i] /= None =>
                        /\ convert_key(Project, Unwrap(keys[i])) = Unwrap(results[i].key)
                        /\ ~is_incomplete(Unwrap(keys[i]))
                        /\ Unwrap(keys[i]).kind = InputList(t)[i].entity.key.kind
                        /\ Unwrap(keys[i]).parent = InputList(t)[i].entity.key.parent
            /\ call[t].method = "put" =>
                keys = IF results = <<>> THEN None
                       ELSE IF results[1].key = None THEN None
                       ELSE Some(Key_from(Unwrap(results[1].key)))

\* put_all of an entity with an incomplete key and one with a complete key:
\* the service generated a key for the first and set none for the second
C11_Witness ==
    \E t \in Tasks :
        /\ call[t].method = "put_all" /\ ReturnedOk(t)
        /\ Len(call[t].args) = 2
        /\ is_incomplete(call[t].args[1].entity.key)
        /\ Len(MutationResults(t)) = 2
        /\ MutationResults(t)[1].key /= None
        /\ MutationResults(t)[2].key = None
        /\ Len(Unwrap(ret[t]).value) = 2
        /\ Unwrap(ret[t]).value[1] /= None
        /\ Unwrap(ret[t]).value[2] = None

(***************************************************************************)
(* C12: a failed RPC or a failed token acquisition ends the call at once   *)
(* with that error: the failed request is the last one the call sent, it   *)
(* is not sent again, and the value returned is the error alone, without   *)
(* the entities accumulated so far.  A further request is only ever sent   *)
(* after a successful answer to the previous one.                          *)
(***************************************************************************)
C12_ErrorsEndTheCall ==
    \A t \in Tasks :
        /\ \A i \in 1..Len(recv[t]) : recv[t][i].tag = "Err" =>
                /\ i = Len(recv[t]) /\ i = Len(sent[t])
                /\ inflight[t] = <<>>
                /\ pc[t] = "done"
                /\ ret[t] = Some(Err("rpc"))
        /\ ReturnedErr(t, "token") =>
                /\ Len(sent[t]) = Len(recv[t])
                /\ inflight[t] = <<>>
                /\ \A i \in 1..Len(recv[t]) : recv[t][i].tag = "Ok"
        /\ \A i \in 2..Len(sent[t]) : recv[t][i - 1].tag = "Ok"

\* a query that had accumulated entities from two batches when its third
\* RunQuery failed: it returned the error
C12_Witness ==
    \E t \in Tasks :
        /\ IsQuery(t) /\ ReturnedErr(t, "rpc")
        /\ Len(sent[t]) = 3 /\ Len(recv[t]) = 3
        /\ recv[t][3] = Err("rpc")
        /\ Len(frame[t].output) >= 2

(***************************************************************************)
(* C13: no call ends by panicking: whatever the input and whatever the     *)
(* service answers, the call ends by returning a result or an error.       *)
(***************************************************************************)
C13_NeverPanics == \A t \in Tasks : pc[t] /= "panicked"

(***************************************************************************)
(* C14: at most one call at a time is inside TokenManager::token(): the    *)
(* lock is held from its acquisition until token() has completed, and by   *)
(* that call only.                                                         *)
(***************************************************************************)
InToken(t) == pc[t] = "cr_token"

C14_TokenMutualExclusion ==
    /\ \A t, u \in Tasks : (InToken(t) /\ InToken(u)) => t = u
    /\ \A t \in Tasks : InToken(t) <=> token_manager = Some(t)

\* one call is inside token() while the other waits for the lock
C14_Witness ==
    \E t, u \in Tasks :
        /\ t /= u
        /\ InToken(t) /\ token_manager = Some(t)
        /\ pc[u] = "cr_lock"
        /\ Len(sent[t]) = 1 /\ Len(sent[u]) = 1

(***************************************************************************)
(* C15: with two calls interleaved, the output, the cursor and the found   *)
(* map of each call are what its own answers make them, and so is its      *)
(* result: nothing of the other call enters them.                          *)
(***************************************************************************)
\* the entities of the batches the call itself received
OwnOutput(t) ==
    Flatten([i \in 1..Len(recv[t]) |->
                IF GoodBatch(t, i) THEN BatchLocal(t, i) ELSE <<>>])

\* the end cursor of the last batch the call itself was told to go on from
OwnCursor(t) ==
    LET going == {i \in 1..Len(recv[t]) :
                    GoodBatch(t, i) /\ Batch(t, i).more_results = "NotFinished"}
    IN  IF going = {} THEN <<>>
        ELSE Batch(t, CHOOSE i \in going : \A j \in going : j <= i).end_cursor

\* the entities the call's own lookups reported found, later ones winning
OwnFound(t) ==
    from_results(EmptyMap,
                 Flatten([i \in 1..Len(recv[t]) |->
                            IF GoodLookup(t, i) THEN recv[t][i].value.found ELSE <<>>]))

C15_CallsIndependent ==
    \A t \in Tasks :
        /\ IsQuery(t) =>
            /\ frame[t].output = OwnOutput(t)
            /\ frame[t].cursor = OwnCursor(t)
            /\ ReturnedOk(t) => Unwrap(ret[t]).value = OwnOutput(t)
        /\ call[t].method = "get_all" =>
            /\ frame[t].found = OwnFound(t)
            /\ ReturnedOk(t) =>
                    Unwrap(ret[t]).value = collect_values(call[t].args, OwnFound(t))
        /\ call[t] = NoCall => frame[t] = NoFrame

\* a query that holds entities and a cursor, and a get_all that holds a
\* found entity and a deferred key, both under way at the same time
C15_Witness ==
    \E t, u \in Tasks :
        /\ t /= u
        /\ IsQuery(t) /\ pc[t] = "rpc" /\ Len(sent[t]) = 3
        /\ Len(frame[t].output) >= 2 /\ frame[t].cursor = <<2>>
        /\ call[u].method = "get_all" /\ pc[u] = "rpc" /\ Len(sent[u]) = 2
        /\ frame[u].found /= EmptyMap /\ Len(frame[u].keys) = 1

(***************************************************************************)
(* C16: convert_key turns a key whose parent chain has n nodes into a path *)
(* of n elements, root first and leaf last, each with the kind and the     *)
(* identifier variant of its node.  Stated on the keys of the requests:    *)
(* the lookup keys, the keys of the entities put and the keys deleted.     *)
(***************************************************************************)
\* the local key the caller passed at position j, and its wire key in the
\* first request of the call
LocalKey(t, j) ==
    IF call[t].method \in {"put", "put_all"} THEN InputList(t)[j].entity.key
    ELSE InputList(t)[j]
SentKey(t, j) ==
    IF IsLookup(t) THEN sent[t][1].keys[j]
    ELSE IF call[t].method \in {"put", "put_all"}
         THEN Unwrap(Operation(sent[t][1].mutations[j]).entity.key)
         ELSE Operation(sent[t][1].mutations[j]).key
SentKeys(t) ==
    IF IsLookup(t) THEN sent[t][1].keys ELSE sent[t][1].mutations

\* the number of nodes of a key's parent chain, and its d-th ancestor
RECURSIVE Depth(_)
Depth(key) == IF key.parent = None THEN 1 ELSE 1 + Depth(Unwrap(key.parent))
RECURSIVE Ancestor(_, _)
Ancestor(key, d) == IF d = 0 THEN key ELSE Ancestor(Unwrap(key.parent), d - 1)

\* a path element carries the identifier variant `id`
SameId(id_type, id) ==
    CASE id.tag = "Incomplete" -> id_type = None
      [] id.tag = "IntID" -> id_type = Some([tag |-> "Id", id |-> id.id])
      [] id.tag = "StringID" -> id_type = Some([tag |-> "Name", name |-> id.name])

RootFirst(path, key) ==
    /\ Len(path) = Depth(key)
    /\ \A i \in 1..Len(path) :
            /\ path[i].kind = Ancestor(key, Len(path) - i).kind
            /\ SameId(path[i].id_type, Ancestor(key, Len(path) - i).id)

C16_PathRootFirst ==
    \A t \in Tasks : ((IsLookup(t) \/ IsCommit(t)) /\ Len(sent[t]) >= 1) =>
        /\ Len(SentKeys(t)) = Len(InputList(t))
        /\ \A j \in 1..Len(InputList(t)) : RootFirst(SentKey(t, j).path, LocalKey(t, j))

\* the spec's scenario: {A, incomplete} under {Root, name r1}
C16_Witness ==
    \E t \in Tasks :
        /\ call[t].method = "get" /\ Len(sent[t]) = 1
        /\ call[t].args = KInc
        /\ sent[t][1].keys[1].path =
                << [kind |-> "Root", id_type |-> Some([tag |-> "Name", name |-> "r1"])],
                   [kind |-> "A", id_type |-> None] >>

(***************************************************************************)
(* C17: for a key whose ancestors are all complete, converting it to wire  *)
(* form and back gives a key equal to the one the caller passed, so that   *)
(* an entity the service reports for a requested key is matched to it.     *)
(***************************************************************************)
AncestorComplete(key) ==
    \A d \in 1..(Depth(key) - 1) : Ancestor(key, d).id /= Incomplete

C17_RoundTripEqual ==
    \A t \in Tasks : (IsLookup(t) /\ Len(sent[t]) >= 1) =>
        \A j \in 1..Len(InputList(t)) :
            AncestorComplete(LocalKey(t, j)) =>
                /\ Key_from(SentKey(t, j)) = LocalKey(t, j)
                /\ (ReturnedOk(t) /\ Len(recv[t]) = 1 /\ Len(InputList(t)) = 1
                        /\ Len(recv[t][1].value.found) = 1)
                    => Unwrap(ret[t]).value /= None

(***************************************************************************)
(* C18: convert_filter gives no filter exactly for the empty filter list;  *)
(* for a list of n >= 1 filters (n = 1 included) it gives a composite AND  *)
(* filter of exactly n property filters, the i-th built from the i-th      *)
(* local filter, never a bare property filter.  Stated on the filter of    *)
(* the RunQuery requests.                                                  *)
(***************************************************************************)
C18_FilterAlwaysComposite ==
    \A t \in Tasks : IsQuery(t) =>
        \A r \in 1..Len(sent[t]) :
            LET filter == RequestQuery(sent[t][r]).filter
                local == call[t].args.filters
            IN  /\ (filter = None) <=> (local = <<>>)
                /\ filter /= None =>
                    /\ Unwrap(filter).tag = "CompositeFilter"
                    /\ Unwrap(filter).op = "And"
                    /\ Len(Unwrap(filter).filters) = Len(local)
                    /\ \A i \in 1..Len(local) :
                        LET sub == Unwrap(filter).filters[i]
                        IN  /\ sub.tag = "PropertyFilter"
                            /\ sub.property = Some([name |-> local[i].name])
                            /\ sub.value = Some(convert_value(Project, local[i].value))
                            /\ (sub.op = "LessThan") <=> (local[i].op = "LesserThan")
                            /\ (sub.op = "Equal") <=> (local[i].op = "Equal")

\* the request of a query with one filter: a composite of one property filter
C18_Witness ==
    \E t \in Tasks :
        /\ IsQuery(t) /\ Len(sent[t]) >= 1
        /\ Len(call[t].args.filters) = 1
        /\ RequestQuery(sent[t][1]).filter /= None
        /\ Unwrap(RequestQuery(sent[t][1]).filter).tag = "CompositeFilter"
        /\ Len(Unwrap(RequestQuery(sent[t][1]).filter).filters) = 1

(***************************************************************************)
(* C19: every wire key placed in a request (lookup keys, keys of entities  *)
(* put, keys deleted, key values in filters) has a non-empty path whose    *)
(* non-terminal elements all have an id or a name.                         *)
(***************************************************************************)
WireKeysIn(req) ==
    CASE req.rpc = "lookup" -> Range(req.keys)
      [] req.rpc = "commit" -> {MutationKey(req.mutations[j]) : j \in 1..Len(req.mutations)}
      [] req.rpc = "run_query" ->
            IF RequestQuery(req).filter = None THEN {}
            ELSE LET subs == Unwrap(RequestQuery(req).filter).filters
                     keyed == {i \in 1..Len(subs) :
                                Unwrap(Unwrap(subs[i].value).value_type).tag = "KeyValue"}
                 IN  {Unwrap(Unwrap(subs[i].value).value_type).key : i \in keyed}

C19_AncestorsComplete ==
    \A t \in Tasks : \A r \in 1..Len(sent[t]) : \A key \in WireKeysIn(sent[t][r]) :
        /\ key.path /= <<>>
        /\ \A i \in 1..(Len(key.path) - 1) : key.path[i].id_type /= None

(***************************************************************************)
(* C20: the first lookup request of a get_all carries the wire forms of    *)
(* all the input keys in input order; every later request carries exactly  *)
(* the deferred list of the response before it; and the found map holds    *)
(* what all the responses so far reported, merged.                         *)
(***************************************************************************)
C20_RetryDeferredOnly ==
    \A t \in Tasks : IsLookup(t) =>
        /\ \A r \in 1..Len(sent[t]) :
            /\ sent[t][r].rpc = "lookup"
            /\ sent[t][r].keys =
                    IF r = 1
                    THEN [j \in 1..Len(InputList(t)) |->
                            convert_key(Project, InputList(t)[j])]
                    ELSE Deferred(t, r - 1)
        /\ frame[t].found = OwnFound(t)
        /\ \A r \in 1..Len(recv[t]) : GoodLookup(t, r) =>
                \A j \in 1..Len(recv[t][r].value.found) :
                    Key_from(Unwrap(Unwrap(recv[t][r].value.found[j].entity).key))
                        \in DOMAIN frame[t].found

\* k1 was found and k2, k3 deferred: the second request asks for k2 and k3
\* only, and the found map still holds k1 while it is outstanding
C20_Witness ==
    \E t \in Tasks :
        /\ call[t].method = "get_all" /\ call[t].args = <<K1, K2, K3>>
        /\ pc[t] = "rpc" /\ Len(sent[t]) = 2 /\ Len(recv[t]) = 1
        /\ sent[t][1].keys = <<convert_key(Project, K1), convert_key(Project, K2),
                               convert_key(Project, K3)>>
        /\ sent[t][2].keys = <<convert_key(Project, K2), convert_key(Project, K3)>>
        /\ DOMAIN frame[t].found = {K1}

(***************************************************************************)
(* C21: the partition of every wire key convert_key produces holds the     *)
(* client's project name and the namespace of the leaf key, the empty      *)
(* string when the leaf has none; the namespaces of the ancestors play no  *)
(* part.  Stated on the keys of the requests.                              *)
(***************************************************************************)
C21_PartitionFromLeaf ==
    \A t \in Tasks : ((IsLookup(t) \/ IsCommit(t)) /\ Len(sent[t]) >= 1) =>
        \A j \in 1..Len(InputList(t)) :
            SentKey(t, j).partition_id =
                Some([project_id |-> Project,
                      namespace_id |-> IF LocalKey(t, j).namespace = None THEN ""
                                       ELSE Unwrap(LocalKey(t, j).namespace)])

\* a key without namespace whose parent is in namespace "other" was sent
\* with the empty namespace
C21_Witness ==
    \E t \in Tasks :
        /\ call[t].method = "get" /\ Len(sent[t]) = 1
        /\ call[t].args.namespace = None
        /\ call[t].args.parent /= None
        /\ Unwrap(call[t].args.parent).namespace = Some("other")
        /\ Unwrap(sent[t][1].keys[1].partition_id).namespace_id = ""
        /\ Unwrap(sent[t][1].keys[1].partition_id).project_id = Project

(***************************************************************************)
(* C22: the wire value of an indexed wrapper (inner, flag) has the value   *)
(* type of the converted inner value and exclude_from_indexes = ~flag; the *)
(* wire value of any other value has exclude_from_indexes = FALSE.  Stated *)
(* on the properties of the entities put and on the values of the filters. *)
(***************************************************************************)
IsPut(t) == call[t].method \in {"put", "put_all"}
\* the properties of the j-th entity put, as passed and as sent
LocalProps(t, j) == InputList(t)[j].entity.properties.props
WireProps(t, j) == Operation(sent[t][1].mutations[j]).entity.properties

Flattened(local, wire) ==
    IF local.tag = "IndexedValue"
    THEN /\ wire.exclude_from_indexes = ~local.flag
         /\ wire.value_type = convert_value(Project, local.inner).value_type
         /\ local.inner.tag /= "IndexedValue" =>
                Unwrap(wire.value_type).tag = local.inner.tag
    ELSE /\ wire.exclude_from_indexes = FALSE
         /\ Unwrap(wire.value_type).tag = local.tag

C22_ExcludeIsNotFlag ==
    \A t \in Tasks :
        /\ (IsPut(t) /\ Len(sent[t]) >= 1) =>
            \A j \in 1..Len(InputList(t)) :
                /\ DOMAIN WireProps(t, j) = DOMAIN LocalProps(t, j)
                /\ \A k \in DOMAIN LocalProps(t, j) :
                        Flattened(LocalProps(t, j)[k], WireProps(t, j)[k])
        /\ (IsQuery(t) /\ Len(sent[t]) >= 1) =>
            \A i \in 1..Len(call[t].args.filters) :
                Flattened(call[t].args.filters[i].value,
                          Unwrap(Unwrap(RequestQuery(sent[t][1]).filter).filters[i].value))

\* an entity was sent whose property wrapped with flag TRUE is indexed and
\* whose property wrapped with flag FALSE is excluded, both as strings
C22_Witness ==
    \E t \in Tasks :
        /\ IsPut(t) /\ Len(sent[t]) = 1 /\ Len(InputList(t)) = 1
        /\ LocalProps(t, 1) = PropsWrapped.props
        /\ WireProps(t, 1).indexed.exclude_from_indexes = FALSE
        /\ WireProps(t, 1).unindexed.exclude_from_indexes = TRUE
        /\ WireProps(t, 1).plain.exclude_from_indexes = FALSE
        /\ Unwrap(WireProps(t, 1).unindexed.value_type) =
                [tag |-> "StringValue", str |-> "s"]

(***************************************************************************)
(* C23: the flattening of the wrapper is not injective: a value v that is  *)
(* no wrapper and IndexedValue(v, TRUE) have the same wire value, and no   *)
(* wire value, at any depth, is of a wrapper variant.                      *)
(***************************************************************************)
\* the variants of value::ValueType
ValueTypeTags ==
    {"NullValue", "BooleanValue", "IntegerValue", "DoubleValue", "TimestampValue",
     "KeyValue", "StringValue", "BlobValue", "GeoPointValue", "EntityValue",
     "ArrayValue"}

\* the variants a wire value is made of, nested values included
RECURSIVE WireTags(_)
WireTags(wire) ==
    LET vt == Unwrap(wire.value_type)
    IN  {vt.tag} \cup
        (CASE vt.tag = "EntityValue" ->
                UNION {WireTags(vt.entity.properties[k]) : k \in DOMAIN vt.entity.properties}
           [] vt.tag = "ArrayValue" ->
                UNION {WireTags(vt.values[i]) : i \in 1..Len(vt.values)}
           [] OTHER -> {})

C23_WrapperNotRecoverable ==
    \A t \in Tasks : (IsPut(t) /\ Len(sent[t]) >= 1) =>
        \A j \in 1..Len(InputList(t)) :
            LET local == LocalProps(t, j)
                wire == WireProps(t, j)
            IN  /\ \A k1, k2 \in DOMAIN local :
                        (/\ local[k1].tag = "IndexedValue"
                         /\ local[k1].flag
                         /\ local[k2].tag /= "IndexedValue"
                         /\ local[k1].inner = local[k2])
                            => wire[k1] = wire[k2]
                /\ \A k \in DOMAIN wire : WireTags(wire[k]) \subseteq ValueTypeTags

\* a string and the same string wrapped with flag TRUE were sent as equal
\* wire values
C23_Witness ==
    \E t \in Tasks :
        /\ IsPut(t) /\ Len(sent[t]) = 1 /\ Len(InputList(t)) = 1
        /\ LocalProps(t, 1) = PropsWrapped.props
        /\ LocalProps(t, 1).indexed /= LocalProps(t, 1).plain
        /\ WireProps(t, 1).indexed = WireProps(t, 1).plain

(***************************************************************************)
(* C24: get_all returns the found entities in the order of the input keys, *)
(* not of the responses: a key no response reported is skipped, a key that *)
(* occurs several times in the input gives one result, at its first        *)
(* occurrence, so the result is no longer than the number of distinct      *)
(* input keys; get returns None for a key that was not found.              *)
(***************************************************************************)
\* the entities of `found` for the keys from position i on, each key at its
\* first occurrence only
RECURSIVE InInputOrder(_, _, _)
InInputOrder(keys, found, i) ==
    IF i > Len(keys) THEN <<>>
    ELSE (IF keys[i] \in DOMAIN found /\ \A j \in 1..(i - 1) : keys[j] /= keys[i]
          THEN <<found[keys[i]]>> ELSE <<>>)
            \o InInputOrder(keys, found, i + 1)

C24_ResultInInputOrder ==
    \A t \in Tasks : (IsLookup(t) /\ ReturnedOk(t)) =>
        LET values == InInputOrder(InputList(t), OwnFound(t), 1)
        IN  /\ Len(values) <= Cardinality(Range(InputList(t)))
            /\ call[t].method = "get_all" => Unwrap(ret[t]).value = values
            /\ call[t].method = "get" =>
                /\ Unwrap(ret[t]).value = (IF values = <<>> THEN None ELSE Some(values[1]))
                /\ call[t].args \notin DOMAIN OwnFound(t) => Unwrap(ret[t]).value = None

\* k2 was found by the first response and k1 by the second: the result
\* holds k1's entity first
C24_Witness ==
    \E t \in Tasks :
        /\ call[t].method = "get_all" /\ ReturnedOk(t)
        /\ call[t].args = <<K1, K2>>
        /\ Len(recv[t]) = 2 /\ Len(Reports(t)) = 2
        /\ Reports(t)[1].key = K2 /\ Reports(t)[2].key = K1
        /\ Unwrap(ret[t]).value = <<Reports(t)[2].properties, Reports(t)[1].properties>>

(***************************************************************************)
(* C25: get_all called with no keys asks for no token, issues no lookup    *)
(* and returns the empty result.                                           *)
(***************************************************************************)
C25_EmptyGetAllIsLocal ==
    \A t \in Tasks : (call[t].method = "get_all" /\ call[t].args = <<>>) =>
        /\ pc[t] = "done"
        /\ ret[t] = Some(Ok(<<>>))
        /\ sent[t] = <<>> /\ recv[t] = <<>> /\ inflight[t] = <<>>
        /\ frame[t].request = None
        /\ token_manager /= Some(t)

\* get_all(<<>>) has returned
C25_Witness ==
    \E t \in Tasks :
        /\ call[t].method = "get_all" /\ call[t].args = <<>>
        /\ ReturnedOk(t) /\ Unwrap(ret[t]).value = <<>>
        /\ sent[t] = <<>>

(***************************************************************************)
(* C26: put_all and delete_all called with an empty collection still ask   *)
(* for a token and issue exactly one commit, with no mutation: neither     *)
(* returns a result before that commit was sent and answered.              *)
(***************************************************************************)
C26_EmptyCommitStillSent ==
    \A t \in Tasks :
        (call[t].method \in {"put_all", "delete_all"} /\ call[t].args = <<>>) =>
            /\ frame[t].request = Some(commit_request(Project, <<>>))
            /\ Len(sent[t]) <= 1
            /\ \A i \in 1..Len(sent[t]) :
                    sent[t][i].rpc = "commit" /\ sent[t][i].mutations = <<>>
            /\ pc[t] \in {"cr_lock", "cr_token"} => sent[t] = <<>>
            /\ pc[t] = "rpc" => Len(sent[t]) = 1
            /\ ReturnedOk(t) =>
                    /\ Len(sent[t]) = 1 /\ Len(recv[t]) = 1
                    /\ recv[t][1].tag = "Ok"
            /\ pc[t] = "done" =>
                    \/ ReturnedOk(t)
                    \/ ReturnedErr(t, "token") /\ sent[t] = <<>>
                    \/ ReturnedErr(t, "rpc") /\ Len(sent[t]) = 1

\* delete_all(<<>>) has returned after one commit without mutations
C26_Witness ==
    \E t \in Tasks :
        /\ call[t].method = "delete_all" /\ call[t].args = <<>>
        /\ ReturnedOk(t)
        /\ Len(sent[t]) = 1 /\ Len(recv[t]) = 1
        /\ sent[t][1].rpc = "commit" /\ sent[t][1].mutations = <<>>


(***************************************************************************)
(* C27: a request is handed to the service only in the step in which the   *)
(* call, holding the token lock, obtains its token, and that step gives    *)
(* the lock back: the lock is never held by a call whose RPC is in flight. *)
(* A failed token() gives the lock back as well and sends nothing.         *)
(***************************************************************************)
\* the call hands a request to the service in this step
Sends(t) == inflight'[t] /= inflight[t] /\ Len(inflight'[t]) > Len(inflight[t])

\* the call gives the token lock back in this step
Releases(t) == token_manager = Some(t) /\ token_manager' /= Some(t)

C27_TokenThenRpc ==
    [][\A t \in Tasks :
        /\ Sends(t) =>
            /\ pc[t] = "cr_token" /\ token_manager = Some(t)
            /\ token_manager' = None
            /\ sent'[t] = Append(sent[t], Unwrap(frame[t].request))
            /\ inflight'[t] = <<Unwrap(frame[t].request)>>
        /\ sent'[t] /= sent[t] => Sends(t)
        /\ Releases(t) =>
            /\ pc[t] = "cr_token"
            /\ token_manager' = None
            /\ \/ Sends(t)
               \/ ret'[t] = Some(Err("token")) /\ pc'[t] = "done"
               \/ pc'[t] = "panicked"
        /\ (pc[t] = "cr_token" /\ pc'[t] /= "cr_token") => Releases(t)
        /\ (ret[t] = None /\ ret'[t] = Some(Err("token"))) =>
            /\ Releases(t)
            /\ sent'[t] = sent[t] /\ inflight'[t] = <<>>
        /\ inflight'[t] /= <<>> => token_manager' /= Some(t)
        /\ pc'[t] \in {"done", "panicked"} => token_manager' /= Some(t)
    ]_vars

\* the second RPC of one call is in flight while the other call holds the
\* token lock
C27_Witness ==
    \E t, u \in Tasks :
        /\ t /= u
        /\ pc[t] = "rpc" /\ Len(inflight[t]) = 1 /\ Len(sent[t]) = 2
        /\ token_manager = Some(u) /\ pc[u] = "cr_token"


(***************************************************************************)
(* C28: when into_entity fails on one of the inputs of put_all (or on the  *)
(* input of put), the call returns that error at once: it never asks for   *)
(* a token, never sends a commit, and so writes none of its entities.      *)
(***************************************************************************)
\* one of the inputs of the put or put_all fails to convert
SomeInputFails(t) ==
    /\ IsPut(t)
    /\ \E i \in 1..Len(InputList(t)) : InputList(t)[i].tag = "Err"

C28_FailedConversionWritesNothing ==
    \A t \in Tasks :
        SomeInputFails(t) =>
            /\ pc[t] = "done"
            /\ ret[t] = Some(Err("into_entity"))
            /\ frame[t].request = None
            /\ sent[t] = <<>> /\ recv[t] = <<>> /\ inflight[t] = <<>>
            /\ token_manager /= Some(t)

\* a put_all of one good entity and one failing input has returned the
\* error with nothing sent
C28_Witness ==
    \E t \in Tasks :
        /\ call[t].method = "put_all"
        /\ Len(call[t].args) = 2
        /\ call[t].args[1].tag = "Ok" /\ ~entity_panics(call[t].args[1].entity)
        /\ call[t].args[2].tag = "Err"
        /\ ret[t] = Some(Err("into_entity"))
        /\ sent[t] = <<>>


(***************************************************************************)
(* C29: while get_all loops, no step takes a key out of the found map, and *)
(* the entity of a key changes only in a step whose response reports that  *)
(* key again. So at every moment, the exit of the loop included, every key *)
(* that a response read so far reported found is in the map, with the      *)
(* entity reported last for it.                                            *)
(***************************************************************************)
\* the entities the lookup responses read so far reported found, in the
\* order they arrived
ReportedFound(t) ==
    Flatten([i \in 1..Len(recv[t]) |->
                IF GoodLookup(t, i)
                THEN [j \in 1..Len(recv[t][i].value.found) |->
                        Entity_from(Unwrap(recv[t][i].value.found[j].entity))]
                ELSE <<>>])

\* every reported key is in the map with the entity reported last for it
FoundHoldsReports(t) ==
    \A r \in 1..Len(ReportedFound(t)) :
        LET key == ReportedFound(t)[r].key
        IN  /\ key \in DOMAIN frame[t].found
            /\ (\A r2 \in (r + 1)..Len(ReportedFound(t)) : ReportedFound(t)[r2].key /= key)
                    => frame[t].found[key] = ReportedFound(t)[r].properties

C29_FoundOnlyGrows ==
    [][\A t \in Tasks :
        (call[t].method \in {"get", "get_all"} /\ call'[t] = call[t]) =>
            /\ DOMAIN frame[t].found \subseteq DOMAIN frame'[t].found
            /\ \A k \in DOMAIN frame[t].found :
                    frame'[t].found[k] /= frame[t].found[k] =>
                        \E r \in (Len(ReportedFound(t)) + 1)..Len(ReportedFound(t)') :
                            /\ ReportedFound(t)'[r].key = k
                            /\ \E r1 \in 1..Len(ReportedFound(t)) : ReportedFound(t)[r1].key = k
            /\ FoundHoldsReports(t)'
    ]_vars

\* get_all(k1, k1) has returned: the first response found k1 and deferred
\* k1, the second found k1 again with another entity, which is the one in
\* the map
C29_Witness ==
    \E t \in Tasks :
        /\ call[t].method = "get_all" /\ ReturnedOk(t)
        /\ Len(recv[t]) = 2
        /\ Len(ReportedFound(t)) = 2
        /\ ReportedFound(t)[1].key = ReportedFound(t)[2].key
        /\ ReportedFound(t)[1].properties /= ReportedFound(t)[2].properties
        /\ frame[t].found[ReportedFound(t)[2].key] = ReportedFound(t)[2].properties


(***************************************************************************)
(* C30: of directly nested indexed wrappers only the outermost flag        *)
(* counts: the wire value has exclude_from_indexes = ~(outermost flag) and *)
(* the value type of the innermost wrapped value. A wrapper inside an      *)
(* array or a nested entity sets exclude_from_indexes of that element      *)
(* only; the enclosing wire value follows its own wrapper, or is FALSE.    *)
(* Stated on the properties of the entities put.                           *)
(***************************************************************************)
\* the value under all the wrappers directly around it
RECURSIVE Core(_)
Core(local) == IF local.tag = "IndexedValue" THEN Core(local.inner) ELSE local

RECURSIVE OutermostOnly(_, _)
OutermostOnly(local, wire) ==
    /\ wire.exclude_from_indexes =
            (IF local.tag = "IndexedValue" THEN ~local.flag ELSE FALSE)
    /\ IsSome(wire.value_type)
    /\ Unwrap(wire.value_type).tag = Core(local).tag
    /\ Core(local).tag = "ArrayValue" =>
            /\ Len(Unwrap(wire.value_type).values) = Len(Core(local).values)
            /\ \A i \in 1..Len(Core(local).values) :
                    OutermostOnly(Core(local).values[i], Unwrap(wire.value_type).values[i])
    /\ Core(local).tag = "EntityValue" =>
            /\ DOMAIN Unwrap(wire.value_type).entity.properties = DOMAIN Core(local).props
            /\ \A k \in DOMAIN Core(local).props :
                    OutermostOnly(Core(local).props[k],
                                  Unwrap(wire.value_type).entity.properties[k])

C30_OutermostFlagOnly ==
    \A t \in Tasks :
        (IsPut(t) /\ Len(sent[t]) >= 1) =>
            \A j \in 1..Len(InputList(t)) :
                \A k \in DOMAIN LocalProps(t, j) :
                    OutermostOnly(LocalProps(t, j)[k], WireProps(t, j)[k])

\* an entity was sent with doubly wrapped properties, whose outer flags
\* decided, and with an array and a nested entity that are indexed
\* themselves while one of their elements is excluded
C30_Witness ==
    \E t \in Tasks :
        /\ IsPut(t) /\ Len(sent[t]) = 1 /\ Len(InputList(t)) = 1
        /\ LocalProps(t, 1) = PropsWrapped.props
        /\ LocalProps(t, 1).inner_on.inner.flag = TRUE
        /\ WireProps(t, 1).inner_on.exclude_from_indexes = TRUE
        /\ LocalProps(t, 1).inner_off.inner.flag = FALSE
        /\ WireProps(t, 1).inner_off.exclude_from_indexes = FALSE
        /\ Unwrap(WireProps(t, 1).inner_on.value_type) = [tag |-> "IntegerValue", int |-> 1]
        /\ WireProps(t, 1).array.exclude_from_indexes = FALSE
        /\ Unwrap(WireProps(t, 1).array.value_type).values[1].exclude_from_indexes = TRUE
        /\ Unwrap(WireProps(t, 1).array.value_type).values[2].exclude_from_indexes = FALSE
        /\ WireProps(t, 1).entity.exclude_from_indexes = FALSE
        /\ Unwrap(WireProps(t, 1).entity.value_type).entity.properties.x.exclude_from_indexes = TRUE
        /\ Unwrap(WireProps(t, 1).entity.value_type).entity.properties.y.exclude_from_indexes = FALSE

=============================================================================
